---- MODULE Spec2Model ----
(***************************************************************************)
(* Dense matrix (src/Matrix.cpp, flat row-major store) and the feed-forward *)
(* network built on it (src/NeuralNet.cpp).                                 *)
(*                                                                          *)
(* A Matrix is the record [rows, cols, data]; data is the flat store, a     *)
(* sequence indexed from 1, so the C++ element data[k] is data[k + 1] here. *)
(* Val (a floating-point type declared in Matrix.h) is modelled by the      *)
(* integers: integer-valued doubles are exact, and + - * on them are the    *)
(* integer operations as long as no rounding occurs.                        *)
(***************************************************************************)
EXTENDS Integers, Sequences, FiniteSets, TLC

VARIABLES
    A, B, R, aop,                 \* matrix algebra: operands, last result, last operation
    M, D, strm, rest, failbit, sop
        \* matrix streams: source, destination, the text handed to the reader, the
        \* text the reader left, the failbit after the read, last operation

VARIABLES
    net,        \* the NeuralNet: [layerSizes, biases, weights]
    nop,        \* the last operation on it and how it ended
    nin,        \* the input of the last learn or classify
    nexp,       \* the expected output of the last learn
    neta,       \* the learning rate of the last learn
    nres,       \* the outcome of the last classify: [ok, m, err]
    ntext,      \* the text of the stream last written by operator<< or handed to operator>>
    nfail,      \* the failbit after the last operator>>
    nsteps      \* learn and operator>> calls so far

VARIABLES
    tnames,     \* train: the fileNames of the call
    tlimit,     \* train: count (or limit) as the caller passed it
    tcount,     \* train: the local count, counted down by the loop
    tpos,       \* train: the entry of fileNames the loop takes next
    tlearned,   \* train: the names learn has been called for, in call order
    top,        \* train: "idle", "loop", "returned" or "aborted"
    tvia        \* train: the overload the caller used, "helper" or "list"

avars == <<A, B, R, aop>>
tvars == <<tnames, tlimit, tcount, tpos, tlearned, top, tvia>>
nvars == <<net, nop, nin, nexp, neta, nres, ntext, nfail, nsteps>>
svars == <<M, D, strm, rest, failbit, sop>>
vars == <<avars, svars, nvars, tvars>>

\* Largest number of rows or columns of an operand matrix.
MaxDim == 2

----------------------------------------------------------------------------
(* Matrix.cpp *)

\* Matrix::Matrix(row, col, initVal): data(row * col, initVal), rows(row), cols(col)
MatrixCtor(row, col, initVal) ==
    [rows |-> row, cols |-> col, data |-> [k \in 1..(row * col) |-> initVal]]

\* height() and width() (Matrix.h; the spec fixes height() == rows, width() == cols)
height(m) == m.rows
width(m) == m.cols

\* The element [i][j] of m in the row-major store, i and j counted from 0.
At(m, i, j) == m.data[i * m.cols + j + 1]

TransposeNoSwap(m) ==
    IF m.rows = 0 \/ m.cols = 0
    THEN m
    ELSE [rows |-> width(m), cols |-> height(m), data |-> m.data]

\* Matrix::transpose(): an empty matrix is returned as it is; otherwise
\* result(width(), height()) with result.data[col * rows + row] = data[row * cols + col].
Transpose(m) ==
    IF m.rows = 0 \/ m.cols = 0
    THEN m
    ELSE [rows |-> width(m), cols |-> height(m),
          data |-> [k \in 1..(width(m) * height(m)) |->
                      LET col == (k - 1) \div m.rows
                          row == (k - 1) % m.rows
                      IN  m.data[row * m.cols + col + 1]]]

\* The assertion that opens Matrix::dot: assert(cols == rhs.rows).
DotAsserts(m, rhs) == m.cols = rhs.rows

\* The innermost loop of Matrix::dot: result.data[row * mWidth + col] starts at 0
\* and accumulates data[row * width + i] * transposed_rhs.data[col * width + i]
\* for i = 0 .. n - 1.
RECURSIVE DotAcc(_, _, _, _, _, _)
DotAcc(m, t, wdth, row, col, n) ==
    IF n = 0
    THEN 0
    ELSE DotAcc(m, t, wdth, row, col, n - 1)
         + m.data[row * wdth + (n - 1) + 1] * t.data[col * wdth + (n - 1) + 1]

DotNoTranspose(m, rhs) ==
    LET mWidth == rhs.cols
        wdth == m.cols
    IN  [rows |-> m.rows, cols |-> mWidth,
         data |-> [k \in 1..(m.rows * mWidth) |->
                     DotAcc(m, rhs, wdth, (k - 1) \div mWidth, (k - 1) % mWidth, wdth)]]

\* Matrix::dot(rhs), past its assertion: result(rows, rhs.cols), filled from the
\* transposed copy of rhs.
Dot(m, rhs) ==
    LET mWidth == rhs.cols
        wdth == m.cols
        transposed_rhs == Transpose(rhs)
    IN  [rows |-> m.rows, cols |-> mWidth,
         data |-> [k \in 1..(m.rows * mWidth) |->
                     DotAcc(m, transposed_rhs, wdth,
                            (k - 1) \div mWidth, (k - 1) % mWidth, wdth)]]

----------------------------------------------------------------------------
(* Operand matrices of the algebra checks *)

Offsets == {0, 1, -2}
Strides == {0, 1, 3}

\* The r x c matrix whose k-th stored value is a + b * k.
Ramp(r, c, a, b) ==
    [rows |-> r, cols |-> c, data |-> [k \in 1..(r * c) |-> a + b * k]]

Operands ==
    {Ramp(r, c, a, b) : r \in 0..MaxDim, c \in 0..MaxDim, a \in Offsets, b \in Strides}

NoMatrix == MatrixCtor(0, 0, 0)

NetIdle ==
    [layerSizes |-> NoMatrix, biases |-> <<>>, weights |-> <<>>]

InitAlgebra ==
    /\ A \in Operands
    /\ B \in Operands
    /\ R = NoMatrix
    /\ aop = "none"
    /\ M = NoMatrix /\ D = NoMatrix /\ strm = <<>> /\ rest = <<>>
    /\ failbit = FALSE /\ sop = "none"
    /\ net = NetIdle /\ nop = "none" /\ nin = NoMatrix /\ nexp = NoMatrix /\ neta = 0
    /\ nres = [ok |-> TRUE, m |-> NoMatrix, err |-> ""]
    /\ ntext = <<>> /\ nfail = FALSE /\ nsteps = 0
    /\ tnames = <<>> /\ tlimit = 0 /\ tcount = 0 /\ tpos = 1 /\ tlearned = <<>>
    /\ top = "idle" /\ tvia = "none"

\* R = A.dot(B) with compatible operands.
DotCall ==
    /\ DotAsserts(A, B)
    /\ R' = Dot(A, B)
    /\ aop' = "dot"
    /\ UNCHANGED <<A, B>>

\* A.dot(B) stopped by its assertion.
DotAssertFails ==
    /\ ~DotAsserts(A, B)
    /\ aop' = "dot_assert"
    /\ UNCHANGED <<A, B, R>>

\* R = A.transpose()
TransposeCall ==
    /\ R' = Transpose(A)
    /\ aop' = "transpose"
    /\ UNCHANGED <<A, B>>

NextAlgebra ==
    \/ DotCall /\ UNCHANGED <<svars, nvars, tvars>>
    \/ DotAssertFails /\ UNCHANGED <<svars, nvars, tvars>>
    \/ TransposeCall /\ UNCHANGED <<svars, nvars, tvars>>

SpecAlgebra == InitAlgebra /\ [][NextAlgebra]_vars

----------------------------------------------------------------------------
(* Text streams.  A stream's text is a sequence of one-character strings; an  *)
(* input stream is the record [buf, fail]: the characters not yet consumed   *)
(* and the failbit.  eofbit needs no field: it is set only when buf is empty, *)
(* and an extraction from an empty buf fails as one from a stream at eof.    *)

DigitChars == <<"0", "1", "2", "3", "4", "5", "6", "7", "8", "9">>
IsDigit(c) == \E d \in 1..10 : DigitChars[d] = c
DigitOf(c) == (CHOOSE d \in 1..10 : DigitChars[d] = c) - 1
IsSpace(c) == c \in {" ", "\n"}

RECURSIVE Pow10(_)
Pow10(n) == IF n = 0 THEN 1 ELSE 10 * Pow10(n - 1)

RECURSIVE NumDigits(_)
NumDigits(n) == IF n < 10 THEN 1 ELSE 1 + NumDigits(n \div 10)

\* The decimal digits of a natural number, as an unsigned integer is printed.
RECURSIVE FormatNat(_)
FormatNat(n) ==
    IF n < 10 THEN <<DigitChars[n + 1]>>
    ELSE FormatNat(n \div 10) \o <<DigitChars[(n % 10) + 1]>>

\* The value of a sequence of decimal digits.
RECURSIVE DigitsToNat(_)
DigitsToNat(ds) ==
    IF ds = <<>> THEN 0
    ELSE 10 * DigitsToNat(SubSeq(ds, 1, Len(ds) - 1)) + DigitOf(ds[Len(ds)])

\* Significant digits an output stream prints of a floating-point value when
\* the program sets no precision, as operator<< of Matrix does not.
Precision == 6

RECURSIVE StripZeros(_)
StripZeros(ds) ==
    IF ds # <<>> /\ ds[Len(ds)] = "0" THEN StripZeros(SubSeq(ds, 1, Len(ds) - 1)) ELSE ds

\* u divided by 10^k, rounded to nearest, ties to even.
RoundDiv(u, k) ==
    LET p == Pow10(k)
        q == u \div p
        r == u % p
    IN  IF 2 * r > p \/ (2 * r = p /\ q % 2 = 1) THEN q + 1 ELSE q

\* os << val for a positive integer-valued val in the stream's default format:
\* all digits when there are at most Precision of them, otherwise the value
\* rounded to Precision significant digits in scientific notation, trailing
\* zeros of the mantissa removed, the exponent signed and of two digits at least.
FormatMagnitude(u) ==
    LET d == NumDigits(u) IN
    IF d <= Precision
    THEN FormatNat(u)
    ELSE LET q0 == RoundDiv(u, d - Precision)
             carry == q0 = Pow10(Precision)
             q == IF carry THEN Pow10(Precision - 1) ELSE q0
             x == IF carry THEN d ELSE d - 1
             ds == FormatNat(q)
             frac == StripZeros(Tail(ds))
         IN  <<Head(ds)>> \o (IF frac = <<>> THEN <<>> ELSE <<".">> \o frac)
             \o <<"e", "+">> \o (IF x < 10 THEN <<"0">> ELSE <<>>) \o FormatNat(x)

\* os << matrix.data[...] (Matrix.cpp line 21)
FormatVal(v) ==
    IF v = 0 THEN <<"0">>
    ELSE IF v < 0 THEN <<"-">> \o FormatMagnitude(-v)
    ELSE FormatMagnitude(v)

\* One row of operator<<: every value followed by " ", then '\n'.
RECURSIVE WriteRowNoSeparator(_, _, _)
WriteRowNoSeparator(m, row, n) ==
    IF n = 0 THEN <<>>
    ELSE WriteRowNoSeparator(m, row, n - 1) \o FormatVal(m.data[row * m.cols + (n - 1) + 1])

RECURSIVE WriteRow(_, _, _)
WriteRow(m, row, n) ==
    IF n = 0 THEN <<>>
    ELSE WriteRow(m, row, n - 1) \o FormatVal(m.data[row * m.cols + (n - 1) + 1]) \o <<" ">>

RECURSIVE WriteRows(_, _)
WriteRows(m, n) ==
    IF n = 0 THEN <<>>
    ELSE WriteRows(m, n - 1) \o WriteRow(m, n - 1, m.cols) \o <<"\n">>

\* os << matrix.height() and os << matrix.width(): transpose() counts rows and
\* columns against them in an int, so a count past the int range prints negative.
FormatSize(n) == IF n < 0 THEN <<"-">> \o FormatNat(-n) ELSE FormatNat(n)

\* operator<<(std::ostream&, const Matrix&): "height width\n", then the rows.
WriteMatrix(m) ==
    FormatSize(height(m)) \o <<" ">> \o FormatSize(width(m)) \o <<"\n">>
    \o WriteRows(m, m.rows)

\* The sentry of a formatted extraction skips leading whitespace.
RECURSIVE SkipWs(_)
SkipWs(buf) ==
    IF buf # <<>> /\ IsSpace(Head(buf)) THEN SkipWs(Tail(buf)) ELSE buf

\* The number of leading digits of buf.
RECURSIVE CountDigits(_)
CountDigits(buf) ==
    IF buf # <<>> /\ IsDigit(Head(buf)) THEN 1 + CountDigits(Tail(buf)) ELSE 0

Drop(buf, n) == SubSeq(buf, n + 1, Len(buf))

\* 1 when buf opens with a sign, else 0.
SignLen(buf) == IF buf # <<>> /\ Head(buf) \in {"-", "+"} THEN 1 ELSE 0

\* The outcome [is, set, val] of an extraction: the stream it leaves, whether
\* it wrote the variable, and what it wrote.
Extracted(buf, v) == [is |-> [buf |-> buf, fail |-> FALSE], set |-> TRUE, val |-> v]
Refused(buf) == [is |-> [buf |-> buf, fail |-> TRUE], set |-> TRUE, val |-> 0]
Untouched(buf, fail) == [is |-> [buf |-> buf, fail |-> fail], set |-> FALSE, val |-> 0]

\* The characters of an integer: s sign characters, then n digits.
IntText(b, s, n) ==
    IF n = 0 THEN Refused(Drop(b, s))
    ELSE Extracted(Drop(b, s + n),
                   IF Head(b) = "-" THEN -DigitsToNat(SubSeq(b, s + 1, s + n))
                   ELSE DigitsToNat(SubSeq(b, s + 1, s + n)))

IntAfterWs(b) ==
    IF b = <<>> THEN Untouched(b, TRUE)
    ELSE IntText(b, SignLen(b), CountDigits(Drop(b, SignLen(b))))

\* is >> (int): the result is [is, set, val].  On a stream that has failed, or
\* that ends in whitespace, the sentry fails and the variable is left as it was
\* (set = FALSE).  Otherwise a sign and the digits are consumed; with no digit
\* the variable is set to 0 and the stream fails.
ReadInt(is) ==
    IF is.fail THEN Untouched(is.buf, TRUE) ELSE IntAfterWs(SkipWs(is.buf))

\* The characters of a floating-point value in b: s sign characters, n1
\* digits, p points, n2 digits, m exponent marks, es exponent signs, n3 digits.
\* They are consumed; they are a number when the mantissa has a digit and an
\* exponent mark is followed by a digit.  A value that is no integer is the
\* record [mant, exp10].
ValText(b, s, n1, p, n2, m, es, n3) ==
    LET mant == DigitsToNat(SubSeq(b, s + 1, s + n1) \o SubSeq(b, s + n1 + p + 1, s + n1 + p + n2))
        k == s + n1 + p + n2 + m + es
        ex == DigitsToNat(SubSeq(b, k + 1, k + n3))
        exp10 == (IF es = 1 /\ b[k] = "-" THEN -ex ELSE ex) - n2
    IN  IF n1 + n2 = 0 \/ (m = 1 /\ n3 = 0)
        THEN Refused(Drop(b, k + n3))
        ELSE Extracted(Drop(b, k + n3),
                       IF exp10 >= 0
                       THEN (IF Head(b) = "-" THEN -mant ELSE mant) * Pow10(exp10)
                       ELSE [mant |-> IF Head(b) = "-" THEN -mant ELSE mant, exp10 |-> exp10])

ValExpDigits(b, s, n1, p, n2, m, es) ==
    ValText(b, s, n1, p, n2, m, es,
            IF m = 1 THEN CountDigits(Drop(b, s + n1 + p + n2 + 1 + es)) ELSE 0)

ValExponent(b, s, n1, p, n2, m) ==
    ValExpDigits(b, s, n1, p, n2, m,
                 IF m = 1 THEN SignLen(Drop(b, s + n1 + p + n2 + 1)) ELSE 0)

\* An exponent mark is taken only after a digit of the mantissa.
ValMark(b, s, n1, p, n2) ==
    ValExponent(b, s, n1, p, n2,
                IF /\ n1 + n2 > 0
                   /\ s + n1 + p + n2 < Len(b)
                   /\ b[s + n1 + p + n2 + 1] \in {"e", "E"}
                THEN 1 ELSE 0)

ValFraction(b, s, n1, p) ==
    ValMark(b, s, n1, p, IF p = 1 THEN CountDigits(Drop(b, s + n1 + 1)) ELSE 0)

ValMantissa(b, s, n1) ==
    ValFraction(b, s, n1, IF s + n1 < Len(b) /\ b[s + n1 + 1] = "." THEN 1 ELSE 0)

ValAfterWs(b) ==
    IF b = <<>> THEN Untouched(b, TRUE)
    ELSE ValMantissa(b, SignLen(b), CountDigits(Drop(b, SignLen(b))))

\* is >> (Val): as ReadInt, for the text of a floating-point value: sign,
\* digits, a point with digits, an exponent with its sign.
ReadVal(is) ==
    IF is.fail THEN Untouched(is.buf, TRUE) ELSE ValAfterWs(SkipWs(is.buf))

\* One value of the loops of operator>>: is >> matrix.data[k]; a variable the
\* extraction does not write keeps the 0 that Matrix(height, width) put there.
StoreVal(data, r) == [is |-> r.is, data |-> Append(data, IF r.set THEN r.val ELSE 0)]

ReadNext(before) == StoreVal(before.data, ReadVal(before.is))

\* The loops of operator>>: is >> matrix.data[k] for k = 0 .. n - 1.  The
\* result is [is, data].
RECURSIVE ReadVals(_, _)
ReadVals(is, n) ==
    IF n = 0 THEN [is |-> is, data |-> <<>>] ELSE ReadNext(ReadVals(is, n - 1))

\* Values an uninitialised int may hold; -1 stands for every negative value,
\* which the conversion to size_t makes larger than any store.
MaxGarbage == 1
Garbage == (0..MaxGarbage) \cup {-1}

Loaded(h, w, vs) ==
    [is |-> vs.is, m |-> [rows |-> h, cols |-> w, data |-> vs.data], crashed |-> FALSE]

\* matrix = Matrix(height, width) and the loops that fill it.  The result is
\* [is, m, crashed]; crashed when the store asked for is larger than memory, or
\* the rows are more than the loops can run through.
ReadBody(is, h, w) ==
    IF h < 0 \/ (w < 0 /\ h # 0)
    THEN [is |-> is, m |-> NoMatrix, crashed |-> TRUE]
    ELSE Loaded(h, w, ReadVals(is, IF w < 0 THEN 0 ELSE h * w))

ReadWidth(rw, h, gw) == ReadBody(rw.is, h, IF rw.set THEN rw.val ELSE gw)

ReadHeight(rh, gh, gw) == ReadWidth(ReadInt(rh.is), IF rh.set THEN rh.val ELSE gh, gw)

\* operator>>(std::istream&, Matrix&).  height and width are not initialised:
\* one that its extraction leaves as it was holds gh (gw).
ReadMatrix(is, gh, gw) == ReadHeight(ReadInt(is), gh, gw)

----------------------------------------------------------------------------
(* Writing a matrix to a stream and reading it back *)

StreamOffsets == {0, -2, 999999, 2000001, 9999996}
StreamStrides == {0, 1}

Sources ==
    {Ramp(r, c, a, b) : r \in 0..MaxDim, c \in 0..MaxDim,
                        a \in StreamOffsets, b \in StreamStrides}

Destinations == {NoMatrix, MatrixCtor(2, 2, 7), MatrixCtor(1, 3, 0)}

InitStream ==
    /\ M \in Sources
    /\ D \in Destinations
    /\ strm = <<>>
    /\ rest = <<>>
    /\ failbit = FALSE
    /\ sop = "none"
    /\ A = NoMatrix /\ B = NoMatrix /\ R = NoMatrix /\ aop = "none"
    /\ net = NetIdle /\ nop = "none" /\ nin = NoMatrix /\ nexp = NoMatrix /\ neta = 0
    /\ nres = [ok |-> TRUE, m |-> NoMatrix, err |-> ""]
    /\ ntext = <<>> /\ nfail = FALSE /\ nsteps = 0
    /\ tnames = <<>> /\ tlimit = 0 /\ tcount = 0 /\ tpos = 1 /\ tlearned = <<>>
    /\ top = "idle" /\ tvia = "none"

\* os << M on an empty stream
WriteCall ==
    /\ sop = "none"
    /\ strm' = WriteMatrix(M)
    /\ sop' = "written"
    /\ UNCHANGED <<M, D, rest, failbit>>

\* The written text reaches the reader only up to its first n characters.
Cut ==
    /\ sop = "written"
    /\ \E n \in 0..(Len(strm) - 1) : strm' = SubSeq(strm, 1, n)
    /\ sop' = "cut"
    /\ UNCHANGED <<M, D, rest, failbit>>

\* The written text reaches the reader with the rows (k = 1) or the cols
\* (k = 3) of its header replaced by a character that is no digit.
Garble ==
    /\ sop = "written"
    /\ \E k \in {1, 3} : strm' = [strm EXCEPT ![k] = "x"]
    /\ sop' = "garbled"
    /\ UNCHANGED <<M, D, rest, failbit>>

\* is >> D on a stream holding strm
ReadCall ==
    /\ sop \in {"written", "cut", "garbled"}
    /\ \E gh \in Garbage, gw \in Garbage :
          LET r == ReadMatrix([buf |-> strm, fail |-> FALSE], gh, gw) IN
          IF r.crashed
          THEN /\ sop' = "crashed"
               /\ UNCHANGED <<D, rest, failbit>>
          ELSE /\ D' = r.m
               /\ rest' = r.is.buf
               /\ failbit' = r.is.fail
               /\ sop' = (IF sop = "written" THEN "read"
                          ELSE IF sop = "cut" THEN "read_cut" ELSE "read_garbled")
    /\ UNCHANGED <<M, strm>>

NextStream ==
    \/ WriteCall /\ UNCHANGED <<avars, nvars, tvars>>
    \/ Cut /\ UNCHANGED <<avars, nvars, tvars>>
    \/ Garble /\ UNCHANGED <<avars, nvars, tvars>>
    \/ ReadCall /\ UNCHANGED <<avars, nvars, tvars>>

SpecStream == InitStream /\ [][NextStream]_vars

----------------------------------------------------------------------------
(* Matrix.h and NeuralNet.h: element-wise operators, apply, the activation *)

\* The outcome of an expression over matrices: its value, or the check that
\* stopped it.
Ok(m) == [ok |-> TRUE, m |-> m, err |-> ""]
Stopped(err) == [ok |-> FALSE, m |-> NoMatrix, err |-> err]

SameShape(a, b) == a.rows = b.rows /\ a.cols = b.cols

\* operator+, operator- and the element-wise operator*: same shape required.
Plus(a, b) == [rows |-> a.rows, cols |-> a.cols,
               data |-> [k \in 1..Len(a.data) |-> a.data[k] + b.data[k]]]
Minus(a, b) == [rows |-> a.rows, cols |-> a.cols,
                data |-> [k \in 1..Len(a.data) |-> a.data[k] - b.data[k]]]
Hadamard(a, b) == [rows |-> a.rows, cols |-> a.cols,
                   data |-> [k \in 1..Len(a.data) |-> a.data[k] * b.data[k]]]
\* operator* with a scalar
Scale(a, eta) == [rows |-> a.rows, cols |-> a.cols,
                  data |-> [k \in 1..Len(a.data) |-> a.data[k] * eta]]

\* The logistic function and its derivative, on the integers: the unit is a
\* quarter, sigmoid rises from 0 to 4 and is 2 at 0.  The derivative is taken
\* from the pre-activation as sigmoid(x) * (1 - sigmoid(x)) in the same
\* unit; it is positive everywhere, so where sigmoid has reached an end of
\* its range it is the smallest positive value, 1.
sigmoid(x) == IF x <= -2 THEN 0 ELSE IF x >= 2 THEN 4 ELSE x + 2
invSigmoid(x) ==
    IF sigmoid(x) \in {0, 4} THEN 1 ELSE sigmoid(x) * (4 - sigmoid(x))

\* apply(sigmoid) and apply(invSigmoid): the function on every element.
ApplySigmoid(a) == [rows |-> a.rows, cols |-> a.cols,
                    data |-> [k \in 1..Len(a.data) |-> sigmoid(a.data[k])]]
ApplyInvSigmoid(a) == [rows |-> a.rows, cols |-> a.cols,
                       data |-> [k \in 1..Len(a.data) |-> invSigmoid(a.data[k])]]

\* The operators above on outcomes: the first check that fails stops the
\* expression.
DotC(a, b) ==
    IF ~a.ok THEN a ELSE IF ~b.ok THEN b
    ELSE IF DotAsserts(a.m, b.m) THEN Ok(Dot(a.m, b.m)) ELSE Stopped("dot")
PlusC(a, b) ==
    IF ~a.ok THEN a ELSE IF ~b.ok THEN b
    ELSE IF SameShape(a.m, b.m) THEN Ok(Plus(a.m, b.m)) ELSE Stopped("plus")
MinusC(a, b) ==
    IF ~a.ok THEN a ELSE IF ~b.ok THEN b
    ELSE IF SameShape(a.m, b.m) THEN Ok(Minus(a.m, b.m)) ELSE Stopped("minus")
HadamardC(a, b) ==
    IF ~a.ok THEN a ELSE IF ~b.ok THEN b
    ELSE IF SameShape(a.m, b.m) THEN Ok(Hadamard(a.m, b.m)) ELSE Stopped("times")
ScaleC(a, eta) == IF a.ok THEN Ok(Scale(a.m, eta)) ELSE a
ApplySigmoidC(a) == IF a.ok THEN Ok(ApplySigmoid(a.m)) ELSE a

----------------------------------------------------------------------------
(* NeuralNet.cpp *)

\* NeuralNet::initBiasAndWeightMatrices: for lyr = 1 .. size - 1,
\* biases.push_back(Matrix(rows, 1)), weights.push_back(Matrix(rows, cols)) with
\* rows = layerSizes.at(lyr), cols = layerSizes.at(lyr - 1).  Sequences are
\* indexed from 1: layers[lyr + 1] is layerSizes.at(lyr).
initWeightsSwapped(layers) ==
    [lyr \in 1..(Len(layers) - 1) |-> MatrixCtor(layers[lyr], layers[lyr + 1], 0)]

initBiases(layers) ==
    [lyr \in 1..(Len(layers) - 1) |-> MatrixCtor(layers[lyr + 1], 1, 0)]
initWeights(layers) ==
    [lyr \in 1..(Len(layers) - 1) |-> MatrixCtor(layers[lyr + 1], layers[lyr], 0)]

\* NeuralNet::NeuralNet(layers): layerSizes(1, layers.size()) holding the widths.
NeuralNetCtor(layers) ==
    [layerSizes |-> [rows |-> 1, cols |-> Len(layers), data |-> layers],
     biases |-> initBiases(layers),
     weights |-> initWeights(layers)]

\* One turn of the loop of classify:
\* result = (weights[lyr].dot(result) + biases[lyr]).apply(sigmoid).
ClassifyLayer(n, result, lyr) ==
    ApplySigmoidC(PlusC(DotC(Ok(n.weights[lyr]), result), Ok(n.biases[lyr])))

\* The loop of classify over its first k turns.
RECURSIVE ClassifyLoop(_, _, _)
ClassifyLoop(n, inputs, k) ==
    IF k = 0 THEN Ok(inputs) ELSE ClassifyLayer(n, ClassifyLoop(n, inputs, k - 1), k)

classifyShort(n, inputs) == ClassifyLoop(n, inputs, Len(n.weights) - 1)

\* NeuralNet::classify(inputs)
classify(n, inputs) == ClassifyLoop(n, inputs, Len(n.weights))

\* The forward pass of learn.  Its state is [ok, err, activation, activations, zs].
ForwardStart(inputs) ==
    [ok |-> TRUE, err |-> "", activation |-> inputs, activations |-> <<inputs>>, zs |-> <<>>]

ForwardPush(f, z) ==
    IF z.ok
    THEN [ok |-> TRUE, err |-> "",
          activation |-> ApplySigmoid(z.m),
          activations |-> Append(f.activations, ApplySigmoid(z.m)),
          zs |-> Append(f.zs, z.m)]
    ELSE [f EXCEPT !.ok = FALSE, !.err = z.err]

\* zs.push_back(weights[lyr].dot(activation) + biases[lyr]), and the two lines
\* after it.
ForwardLayer(n, f, lyr) ==
    IF ~f.ok THEN f
    ELSE ForwardPush(f, PlusC(DotC(Ok(n.weights[lyr]), Ok(f.activation)), Ok(n.biases[lyr])))

RECURSIVE ForwardLoop(_, _, _)
ForwardLoop(n, inputs, k) ==
    IF k = 0 THEN ForwardStart(inputs) ELSE ForwardLayer(n, ForwardLoop(n, inputs, k - 1), k)

\* The backward pass of learn.  Its state is [ok, err, delta, nabla_b, nabla_w];
\* nabla_b and nabla_w grow by push_back, so they run from the output to the
\* input.
BackwardPush(b, delta, nw) ==
    IF ~delta.ok THEN [b EXCEPT !.ok = FALSE, !.err = delta.err]
    ELSE IF ~nw.ok THEN [b EXCEPT !.ok = FALSE, !.err = nw.err]
    ELSE [ok |-> TRUE, err |-> "", delta |-> delta.m,
          nabla_b |-> Append(b.nabla_b, delta.m),
          nabla_w |-> Append(b.nabla_w, nw.m)]

BackwardEmpty == [ok |-> TRUE, err |-> "", delta |-> NoMatrix, nabla_b |-> <<>>, nabla_w |-> <<>>]

Last(q) == q[Len(q)]

\* delta = (activations.back() - expected) * zs.back().apply(invSigmoid)
OutputDelta(f, expected) ==
    HadamardC(MinusC(Ok(Last(f.activations)), Ok(expected)), Ok(ApplyInvSigmoid(Last(f.zs))))

\* nabla_w.push_back(delta.dot(activations.at(lastLyr - 1).transpose())): at()
\* throws when lastLyr - 1 is no index of activations.
BackwardStart(f, expected, lastLyr) ==
    IF lastLyr - 1 < 0 \/ lastLyr - 1 >= Len(f.activations)
    THEN [BackwardEmpty EXCEPT !.ok = FALSE, !.err = "at"]
    ELSE BackwardPush(BackwardEmpty, OutputDelta(f, expected),
                      DotC(OutputDelta(f, expected), Ok(Transpose(f.activations[lastLyr]))))

\* delta = weights[lastLyr - lyr + 1].transpose().dot(delta) * sp with
\* sp = zs[lastLyr - lyr].apply(invSigmoid)
HiddenDelta(n, f, b, lyr, lastLyr) ==
    HadamardC(DotC(Ok(Transpose(n.weights[lastLyr - lyr + 2])), Ok(b.delta)),
              Ok(ApplyInvSigmoid(f.zs[lastLyr - lyr + 1])))

\* One turn of the loop "for (lyr = 2; lyr <= lastLyr; lyr++)".
BackwardLayer(n, f, b, lyr, lastLyr) ==
    IF ~b.ok THEN b
    ELSE BackwardPush(b, HiddenDelta(n, f, b, lyr, lastLyr),
                      DotC(HiddenDelta(n, f, b, lyr, lastLyr),
                           Ok(Transpose(f.activations[lastLyr - lyr + 1]))))

RECURSIVE BackwardLoop(_, _, _, _, _)
BackwardLoop(n, f, expected, lyr, lastLyr) ==
    IF lyr < 2 THEN BackwardStart(f, expected, lastLyr)
    ELSE BackwardLayer(n, f, BackwardLoop(n, f, expected, lyr - 1, lastLyr), lyr, lastLyr)

UpdatedSameOrder(old, nabla, eta, lyr, lastLyr) ==
    IF lyr <= lastLyr
    THEN MinusC(Ok(old[lyr]), Ok(Scale(nabla[lyr], eta)))
    ELSE Ok(old[lyr])

\* weights[lyr] = weights[lyr] - (nabla_w[revLyr] * eta) with revLyr running
\* from lastLyr - 1 down while lyr runs from 0 up (here lyr counts from 1), and
\* the same for biases; the matrices past lastLyr are not touched.
Updated(old, nabla, eta, lyr, lastLyr) ==
    IF lyr <= lastLyr
    THEN MinusC(Ok(old[lyr]), Ok(Scale(nabla[lastLyr - lyr + 1], eta)))
    ELSE Ok(old[lyr])

\* The update loop of learn: [ok, err, net].
Update(n, b, eta, lastLyr) ==
    IF \E lyr \in 1..Len(n.weights) :
          \/ ~Updated(n.weights, b.nabla_w, eta, lyr, lastLyr).ok
          \/ ~Updated(n.biases, b.nabla_b, eta, lyr, lastLyr).ok
    THEN [ok |-> FALSE, err |-> "minus", net |-> n]
    ELSE [ok |-> TRUE, err |-> "",
          net |-> [layerSizes |-> n.layerSizes,
                   biases |-> [lyr \in 1..Len(n.biases) |->
                                  Updated(n.biases, b.nabla_b, eta, lyr, lastLyr).m],
                   weights |-> [lyr \in 1..Len(n.weights) |->
                                  Updated(n.weights, b.nabla_w, eta, lyr, lastLyr).m]]]

LearnBackward(n, f, b, eta, lastLyr) ==
    IF b.ok THEN Update(n, b, eta, lastLyr) ELSE [ok |-> FALSE, err |-> b.err, net |-> n]

LearnForward(n, f, expected, eta, lastLyr) ==
    IF f.ok
    THEN LearnBackward(n, f, BackwardLoop(n, f, expected, lastLyr, lastLyr), eta, lastLyr)
    ELSE [ok |-> FALSE, err |-> f.err, net |-> n]

\* layerSizes[0].size(): the length of row 0 of layerSizes.
layerCount(n) == n.layerSizes.cols

\* The body of learn with lastLyr given: [ok, err, net].
learnFrom(n, inputs, expected, eta, lastLyr) ==
    LearnForward(n, ForwardLoop(n, inputs, Len(n.biases)), expected, eta, lastLyr)

\* NeuralNet::learn(inputs, expected, eta), on a NeuralNet whose layerSizes has
\* a row 0: lastLyr = layerSizes[0].size() - 1.
learn(n, inputs, expected, eta) ==
    learnFrom(n, inputs, expected, eta, layerCount(n) - 1)

\* "for (const auto& m : list) os << m << '\n'" over the first k matrices.
RECURSIVE WriteList(_, _)
WriteList(list, k) ==
    IF k = 0 THEN <<>> ELSE WriteList(list, k - 1) \o WriteMatrix(list[k]) \o <<"\n">>

WriteNetWeightsFirst(n) ==
    WriteMatrix(n.layerSizes) \o <<"\n">>
    \o WriteList(n.weights, Len(n.weights))
    \o WriteList(n.biases, Len(n.biases))

\* operator<<(std::ostream&, const NeuralNet&): layerSizes, the biases, the
\* weights, each followed by '\n'.
WriteNet(n) ==
    WriteMatrix(n.layerSizes) \o <<"\n">>
    \o WriteList(n.biases, Len(n.biases))
    \o WriteList(n.weights, Len(n.weights))

\* The state of operator>> on a NeuralNet: [is, net, crashed].
Reading(is, n) == [is |-> is, net |-> n, crashed |-> FALSE]
Crashed(st) == [st EXCEPT !.crashed = TRUE]

\* is >> temp; nnet.biases.push_back(temp)
PushBias(st, r) ==
    IF r.crashed THEN Crashed(st)
    ELSE Reading(r.is, [st.net EXCEPT !.biases = Append(@, r.m)])

ReadBias(st, gh, gw) ==
    IF st.crashed THEN st ELSE PushBias(st, ReadMatrix(st.is, gh, gw))

RECURSIVE ReadBiases(_, _, _, _)
ReadBiases(st, k, gh, gw) ==
    IF k = 0 THEN st ELSE ReadBias(ReadBiases(st, k - 1, gh, gw), gh, gw)

\* is >> temp; nnet.weights.push_back(temp)
PushWeight(st, r) ==
    IF r.crashed THEN Crashed(st)
    ELSE Reading(r.is, [st.net EXCEPT !.weights = Append(@, r.m)])

ReadWeight(st, gh, gw) ==
    IF st.crashed THEN st ELSE PushWeight(st, ReadMatrix(st.is, gh, gw))

RECURSIVE ReadWeights(_, _, _, _)
ReadWeights(st, k, gh, gw) ==
    IF k = 0 THEN st ELSE ReadWeight(ReadWeights(st, k - 1, gh, gw), gh, gw)

\* layerCount = nnet.layerSizes[0].size() after "is >> nnet.layerSizes": the
\* length of row 0; a layerSizes without rows has no row 0, and the count is
\* then the indeterminate gl.
ReadCount(r, gl) == IF r.m.rows > 0 THEN r.m.cols ELSE gl

\* The two loops of operator>>, each of layerCount turns.
ReadParameters(st, count, gh, gw) ==
    IF count < 0 THEN Crashed(st)
    ELSE ReadWeights(ReadBiases(st, count, gh, gw), count, gh, gw)

ReadLayerSizes(n, r, gh, gw, gl) ==
    IF r.crashed THEN Crashed(Reading(r.is, n))
    ELSE ReadParameters(Reading(r.is, [n EXCEPT !.layerSizes = r.m]),
                        ReadCount(r, gl), gh, gw)

\* operator>>(std::istream&, NeuralNet&).  gh and gw are what the uninitialised
\* height and width of the matrix extractions hold, gl what the size of a
\* missing row 0 reads as.
ReadNet(n, is, gh, gw, gl) == ReadLayerSizes(n, ReadMatrix(is, gh, gw), gh, gw, gl)

----------------------------------------------------------------------------
(* The network and its callers *)

LayerChoices == {<<2, 1>>, <<1, 2, 1>>, <<2, 1, 2>>}

\* Calls that change the network (learn, operator>>) in one behaviour.
MaxSteps == 2

\* Characters a cut leaves of the head of a text, or takes off its tail.
MaxCut == 4

\* Matrices handed to classify: all shapes up to MaxDim x MaxDim.
Samples ==
    {Ramp(r, c, 0, 1) : r \in 0..MaxDim, c \in 0..MaxDim}

\* Inputs handed to learn: columns of up to MaxDim rows.
Columns == {Ramp(r, 1, a, 1) : r \in 0..MaxDim, a \in {0, 1}}

\* Expected outputs handed to learn: columns of 0 with at most one 4 (the unit
\* of sigmoid) among the first two rows.
Targets ==
    {[rows |-> r, cols |-> 1, data |-> [k \in 1..r |-> IF k = hot THEN 4 ELSE 0]] :
        r \in 1..MaxDim, hot \in 0..2}

Rates == {1, 2}

NoOutcome == Ok(NoMatrix)

\* The process has not been stopped, and no written text waits to be read: a
\* text is read back, if at all, before the network is used again.
Running ==
    nop \notin {"learn_abort", "classify_abort", "crashed", "write", "cut", "garbled"}

\* net.learn(inputs, expected, eta): the update, or the abort of a failed check.
Learn ==
    /\ Running
    /\ nsteps < MaxSteps
    /\ net.layerSizes.rows > 0
    /\ \E inputs \in Columns, expected \in Targets, eta \in Rates :
          LET r == learn(net, inputs, expected, eta) IN
          /\ nin' = inputs
          /\ nexp' = expected
          /\ neta' = eta
          /\ net' = r.net
          /\ nop' = (IF r.ok THEN "learn" ELSE "learn_abort")
          /\ nres' = (IF r.ok THEN NoOutcome ELSE Stopped(r.err))
    /\ nsteps' = nsteps + 1
    /\ UNCHANGED <<ntext, nfail>>

\* net.learn on a NeuralNet whose layerSizes has no row 0: layerSizes[0].size()
\* reads as the indeterminate gl; the call crashes when that is no count the
\* parameter lists can serve.
LearnNoRow ==
    /\ Running
    /\ nsteps < MaxSteps
    /\ net.layerSizes.rows <= 0
    /\ \E inputs \in Columns, expected \in Targets, eta \in Rates, gl \in Garbage :
          LET wild == gl < 0 \/ gl - 1 > Len(net.weights)
              r == IF wild THEN [ok |-> FALSE, err |-> "wild", net |-> net]
                   ELSE learnFrom(net, inputs, expected, eta, gl - 1)
          IN
          /\ nin' = inputs
          /\ nexp' = expected
          /\ neta' = eta
          /\ net' = r.net
          /\ nop' = (IF wild THEN "crashed" ELSE IF r.ok THEN "learn" ELSE "learn_abort")
          /\ nres' = (IF r.ok THEN NoOutcome ELSE Stopped(r.err))
    /\ nsteps' = nsteps + 1
    /\ UNCHANGED <<ntext, nfail>>

ClassifyStoring ==
    /\ Running
    /\ \E inputs \in Samples :
          /\ nin' = inputs
          /\ nres' = classify(net, inputs)
          /\ nop' = (IF classify(net, inputs).ok THEN "classify" ELSE "classify_abort")
          /\ net' = (IF classify(net, inputs).ok
                     THEN [net EXCEPT !.biases[Len(net.biases)] = classify(net, inputs).m]
                     ELSE net)
    /\ nexp' = NoMatrix
    /\ neta' = 0
    /\ UNCHANGED <<ntext, nfail, nsteps>>

\* res = net.classify(inputs): the result, or the abort of a failed check.
Classify ==
    /\ Running
    /\ \E inputs \in Samples :
          /\ nin' = inputs
          /\ nres' = classify(net, inputs)
          /\ nop' = (IF classify(net, inputs).ok THEN "classify" ELSE "classify_abort")
    /\ nexp' = NoMatrix
    /\ neta' = 0
    /\ UNCHANGED <<net, ntext, nfail, nsteps>>

\* os << net on an empty stream
Serialize ==
    /\ Running
    /\ ntext' = WriteNet(net)
    /\ nop' = "write"
    /\ nin' = NoMatrix
    /\ nexp' = NoMatrix
    /\ neta' = 0
    /\ nres' = NoOutcome
    /\ UNCHANGED <<net, nfail, nsteps>>

\* The written text reaches a reader only up to its first n characters: at
\* most MaxCut of them, or all but at most MaxCut.
CutText ==
    /\ nop = "write"
    /\ \E n \in (0..MaxCut) \cup ((Len(ntext) - MaxCut)..(Len(ntext) - 1)) :
          /\ n >= 0 /\ n < Len(ntext)
          /\ ntext' = SubSeq(ntext, 1, n)
    /\ nop' = "cut"
    /\ UNCHANGED <<net, nin, nexp, neta, nres, nfail, nsteps>>

\* The written text reaches a reader with the rows (k = 1) or the cols (k = 3)
\* of its first header replaced by a character that is no digit.
GarbleText ==
    /\ nop = "write"
    /\ \E k \in {1, 3} : ntext' = [ntext EXCEPT ![k] = "x"]
    /\ nop' = "garbled"
    /\ UNCHANGED <<net, nin, nexp, neta, nres, nfail, nsteps>>

\* is >> net on a stream holding ntext
Deserialize ==
    /\ nop \in {"write", "cut", "garbled"}
    /\ nsteps < MaxSteps
    /\ nsteps' = nsteps + 1
    /\ \E gh \in Garbage, gw \in Garbage, gl \in Garbage :
          LET st == ReadNet(net, [buf |-> ntext, fail |-> FALSE], gh, gw, gl) IN
          /\ net' = st.net
          /\ nfail' = st.is.fail
          /\ nop' = (IF st.crashed THEN "crashed"
                     ELSE IF nop = "write" THEN "read"
                     ELSE IF nop = "cut" THEN "read_cut" ELSE "read_garbled")
    /\ UNCHANGED <<nin, nexp, neta, nres, ntext>>

\* NeuralNet fresh({}); is >> fresh on a stream holding the text as written:
\* the network read into holds no bias and no weight.
DeserializeFresh ==
    /\ nop = "write"
    /\ nsteps < MaxSteps
    /\ nsteps' = nsteps + 1
    /\ \E gh \in Garbage, gw \in Garbage, gl \in Garbage :
          LET st == ReadNet(NeuralNetCtor(<<>>), [buf |-> ntext, fail |-> FALSE], gh, gw, gl) IN
          /\ net' = st.net
          /\ nfail' = st.is.fail
          /\ nop' = (IF st.crashed THEN "crashed" ELSE "read_fresh")
    /\ UNCHANGED <<nin, nexp, neta, nres, ntext>>

Next ==
    \/ Learn /\ UNCHANGED <<avars, svars, tvars>>
    \/ LearnNoRow /\ UNCHANGED <<avars, svars, tvars>>
    \/ Classify /\ UNCHANGED <<avars, svars, tvars>>
    \/ Serialize /\ UNCHANGED <<avars, svars, tvars>>
    \/ CutText /\ UNCHANGED <<avars, svars, tvars>>
    \/ GarbleText /\ UNCHANGED <<avars, svars, tvars>>
    \/ Deserialize /\ UNCHANGED <<avars, svars, tvars>>
    \/ DeserializeFresh /\ UNCHANGED <<avars, svars, tvars>>

Init ==
    /\ net \in {NeuralNetCtor(layers) : layers \in LayerChoices}
    /\ nop = "new"
    /\ nin = NoMatrix
    /\ nexp = NoMatrix
    /\ neta = 0
    /\ nres = NoOutcome
    /\ ntext = <<>>
    /\ nfail = FALSE
    /\ nsteps = 0
    /\ A = NoMatrix /\ B = NoMatrix /\ R = NoMatrix /\ aop = "none"
    /\ M = NoMatrix /\ D = NoMatrix /\ strm = <<>> /\ rest = <<>>
    /\ failbit = FALSE /\ sop = "none"
    /\ tnames = <<>> /\ tlimit = 0 /\ tcount = 0 /\ tpos = 1 /\ tlearned = <<>>
    /\ top = "idle" /\ tvia = "none"

Spec == Init /\ [][Next]_vars

\* A network that is constructed and then only taught and asked: main's use of
\* it (train calls learn, assess calls classify).
NextLearn ==
    \/ Learn /\ UNCHANGED <<avars, svars, tvars>>
    \/ Classify /\ UNCHANGED <<avars, svars, tvars>>

SpecLearn == Init /\ [][NextLearn]_vars

\* assert(res.width() == 1); assert(res.height() == 10); in assess, the 10
\* being the width of the last layer of main's network.
AssessAsserts(res, classes) == width(res) = 1 /\ height(res) = classes

----------------------------------------------------------------------------
(* main.cpp: train *)

\* The width of the output layer of main's network {784, 30, 10} and the rows
\* of the expected matrix, Matrix expected(10, 1, 0.0), on the model's scale.
Classes == 2
\* 1.0 in the unit of sigmoid.
One == 4
\* The learning rate of net.learn(img, exp), the default of NeuralNet.h.
DefaultEta == 1

\* NeuralNet net({784, 30, 10}) on the model's scale.
MainNet == NeuralNetCtor(<<2, 1, Classes>>)

\* The names of the image files; the digit after the last '_' is the label.
FileNames == {<<"a", "_", "0">>, <<"b", "_", "1">>}

\* The PGM files under path: width, height, maxVal and the values.
PGM(path) ==
    IF path[1] = "a"
    THEN [width |-> 1, height |-> 2, maxVal |-> 2, values |-> <<0, 2>>]
    ELSE [width |-> 2, height |-> 1, maxVal |-> 2, values |-> <<2, 1>>]

\* loadPGM(path): the (width * height) x 1 column of value / maxVal.
loadPGMFrom(f) ==
    [rows |-> f.width * f.height, cols |-> 1,
     data |-> [i \in 1..(f.width * f.height) |-> (f.values[i] * One) \div f.maxVal]]
loadPGM(path) == loadPGMFrom(PGM(path))

\* path.rfind('_') + 1, as an index from 0
RFindNext(path) ==
    CHOOSE p \in 1..Len(path) :
        /\ path[p] = "_"
        /\ \A q \in (p + 1)..Len(path) : path[q] # "_"

\* getExpectedDigitOutput(path): Classes x 1, 1.0 in the row of the label.
getExpectedDigitOutput(path) ==
    [rows |-> Classes, cols |-> 1,
     data |-> [i \in 1..Classes |->
                 IF i - 1 = DigitOf(path[RFindNext(path) + 1]) THEN One ELSE 0]]

\* Largest number of entries of fileNames and largest count of a train call.
MaxFiles == 3
MaxCount == 3

RECURSIVE ListsOf(_)
ListsOf(n) ==
    IF n = 0 THEN {<<>>}
    ELSE ListsOf(n - 1) \cup
         {Append(l, f) : l \in {x \in ListsOf(n - 1) : Len(x) = n - 1}, f \in FileNames}
FileLists == ListsOf(MaxFiles)

\* The orders std::shuffle can leave a list in.
Shuffles(l) ==
    {m \in FileLists :
        /\ Len(m) = Len(l)
        /\ \A f \in FileNames :
              Cardinality({i \in 1..Len(m) : m[i] = f})
                  = Cardinality({i \in 1..Len(l) : l[i] = f})}

\* The first lines of the list file that the loop of train(net, path, limit,
\* imgListFile) pushes onto fileNames: it stops at the end of the file or when
\* count has reached limit.
Pushed(lines, limit) ==
    SubSeq(lines, 1, IF limit < 0 THEN 0 ELSE IF limit < Len(lines) THEN limit ELSE Len(lines))

\* train(net, path, fileNames, count) is entered.
TrainHelperCall ==
    /\ top = "idle"
    /\ \E fileNames \in FileLists, count \in 0..MaxCount :
          /\ tnames' = fileNames
          /\ tlimit' = count
          /\ tcount' = count
    /\ tpos' = 1
    /\ tlearned' = <<>>
    /\ top' = "loop"
    /\ tvia' = "helper"
    /\ UNCHANGED nvars

\* train(net, path, limit, imgListFile): the list is read up to limit names,
\* shuffled, and handed to the helper with count = limit.
TrainListCall ==
    /\ top = "idle"
    /\ \E lines \in FileLists, limit \in (-1)..MaxCount :
          /\ tnames' \in Shuffles(Pushed(lines, limit))
          /\ tlimit' = limit
          /\ tcount' = limit
    /\ tpos' = 1
    /\ tlearned' = <<>>
    /\ top' = "loop"
    /\ tvia' = "list"
    /\ UNCHANGED nvars

\* One pass of the loop of train: the image and its expected output are
\* loaded, net.learn is called, and then count is tested and counted down.
TrainIteration ==
    /\ top = "loop"
    /\ tpos <= Len(tnames)
    /\ LET r == learn(net, loadPGM(tnames[tpos]),
                      getExpectedDigitOutput(tnames[tpos]), DefaultEta) IN
          /\ net' = r.net
          /\ nin' = loadPGM(tnames[tpos])
          /\ nexp' = getExpectedDigitOutput(tnames[tpos])
          /\ neta' = DefaultEta
          /\ nop' = (IF r.ok THEN "learn" ELSE "learn_abort")
          /\ nres' = (IF r.ok THEN NoOutcome ELSE Stopped(r.err))
          /\ top' = (IF ~r.ok THEN "aborted"
                     ELSE IF tcount <= 0 THEN "returned" ELSE "loop")
    /\ nsteps' = nsteps + 1
    /\ tlearned' = Append(tlearned, tnames[tpos])
    /\ tcount' = tcount - 1
    /\ tpos' = tpos + 1
    /\ UNCHANGED <<ntext, nfail, tnames, tlimit, tvia>>

\* The loop of train has taken every entry of fileNames.
TrainLoopEnd ==
    /\ top = "loop"
    /\ tpos > Len(tnames)
    /\ top' = "returned"
    /\ UNCHANGED <<nvars, tnames, tlimit, tcount, tpos, tlearned, tvia>>

NextTrain ==
    \/ TrainHelperCall /\ UNCHANGED <<avars, svars>>
    \/ TrainListCall /\ UNCHANGED <<avars, svars>>
    \/ TrainIteration /\ UNCHANGED <<avars, svars>>
    \/ TrainLoopEnd /\ UNCHANGED <<avars, svars>>

InitTrain ==
    /\ net = MainNet
    /\ nop = "new"
    /\ nin = NoMatrix
    /\ nexp = NoMatrix
    /\ neta = 0
    /\ nres = NoOutcome
    /\ ntext = <<>>
    /\ nfail = FALSE
    /\ nsteps = 0
    /\ A = NoMatrix /\ B = NoMatrix /\ R = NoMatrix /\ aop = "none"
    /\ M = NoMatrix /\ D = NoMatrix /\ strm = <<>> /\ rest = <<>>
    /\ failbit = FALSE /\ sop = "none"
    /\ tnames = <<>> /\ tlimit = 0 /\ tcount = 0 /\ tpos = 1 /\ tlearned = <<>>
    /\ top = "idle" /\ tvia = "none"

SpecTrain == InitTrain /\ [][NextTrain]_vars

----------------------------------------------------------------------------
(* Claims on the matrix algebra *)

RECURSIVE SumProducts(_, _, _, _, _)
SumProducts(a, b, i, j, n) ==
    IF n = 0
    THEN 0
    ELSE SumProducts(a, b, i, j, n - 1) + At(a, i, n - 1) * At(b, n - 1, j)

\* C1: after R = A.dot(B) with A.cols = B.rows, R has A.rows rows and B.cols
\* columns, its store holds rows * cols values, and every entry [i][j] is the sum
\* over k of A[i][k] * B[k][j].
C1_DotIsMatrixProduct ==
    aop = "dot" =>
        /\ R.rows = A.rows
        /\ R.cols = B.cols
        /\ Len(R.data) = A.rows * B.cols
        /\ \A i \in 0..(A.rows - 1), j \in 0..(B.cols - 1) :
              At(R, i, j) = SumProducts(A, B, i, j, A.cols)

\* C1: dot() has multiplied a 2 x 2 by a 2 x 2 matrix (see the predicate for the values).
C1_Witness ==
    /\ aop = "dot"
    /\ A.rows = 2 /\ A.cols = 2 /\ B.cols = 2
    /\ At(B, 0, 1) # At(B, 1, 0)
    /\ At(R, 0, 1) # 0

\* The matrix has neither zero rows nor zero columns.
NonEmpty(m) == m.rows > 0 /\ m.cols > 0

\* C6 as stated: for all A, B with A.cols = B.rows, empty ones included,
\* B.transpose().dot(A.transpose()) is dimension-compatible and equals
\* (A.dot(B)).transpose().
C6_TransposeOfProduct_AllShapes ==
    aop = "dot" =>
        /\ DotAsserts(Transpose(B), Transpose(A))
        /\ Transpose(R) = Dot(Transpose(B), Transpose(A))

\* C6, amended: the same for A and B that have neither zero rows nor zero columns.
C6_TransposeOfProduct ==
    (aop = "dot" /\ NonEmpty(A) /\ NonEmpty(B)) =>
        /\ DotAsserts(Transpose(B), Transpose(A))
        /\ Transpose(R) = Dot(Transpose(B), Transpose(A))

\* C6: a product of two non-empty matrices has been formed.
C6_Witness ==
    /\ aop = "dot"
    /\ A.rows = 1 /\ A.cols = 2 /\ B.cols = 2
    /\ At(R, 0, 0) # At(R, 0, 1)

\* C7: after R = A.transpose(), R.transpose() has the rows, cols and values of A
\* (empty A included), and for A with neither zero rows nor zero columns R has
\* shape A.cols x A.rows with R[j][i] = A[i][j].
C7_TransposeInvolution ==
    aop = "transpose" =>
        /\ Transpose(R) = A
        /\ NonEmpty(A) =>
              /\ R.rows = A.cols
              /\ R.cols = A.rows
              /\ \A i \in 0..(A.rows - 1), j \in 0..(A.cols - 1) : At(R, j, i) = At(A, i, j)

\* C7: a non-empty, non-square matrix has been transposed.
C7_Witness ==
    /\ aop = "transpose"
    /\ A.rows = 1 /\ A.cols = 2
    /\ R.rows = 2 /\ R.cols = 1
    /\ At(A, 0, 0) # At(A, 0, 1)

\* C7: an empty matrix has been transposed.
C7_WitnessEmpty ==
    /\ aop = "transpose"
    /\ A.rows = 0 /\ A.cols = 2

----------------------------------------------------------------------------
(* Claims on matrix streams *)

\* C8 as stated: reading back the text written for M yields the rows, cols and
\* element values of M, whatever the destination held.
C8_RoundTrip_Exact ==
    sop = "read" => D = M

\* v rounded to Precision significant decimal digits.
RoundSig(v) ==
    LET u == IF v < 0 THEN -v ELSE v
        d == NumDigits(u)
        w == IF d <= Precision THEN u ELSE RoundDiv(u, d - Precision) * Pow10(d - Precision)
    IN  IF v < 0 THEN -w ELSE w

\* C8, amended: reading back the text written for M succeeds and yields the rows
\* and cols of M and every value of M rounded to Precision significant digits,
\* whatever the destination held; all of the text is consumed but whitespace.
C8_RoundTrip ==
    sop = "read" =>
        /\ ~failbit
        /\ D.rows = M.rows
        /\ D.cols = M.cols
        /\ Len(D.data) = Len(M.data)
        /\ \A k \in 1..Len(M.data) : D.data[k] = RoundSig(M.data[k])
        /\ SkipWs(rest) = <<>>

\* C8: a value of more than 6 significant digits has been written and read back rounded.
C8_Witness ==
    /\ sop = "read"
    /\ M.rows = 2 /\ M.cols = 2
    /\ M.data[1] > 1000000
    /\ D.data[1] # M.data[1]

\* C8: a matrix has been written and read back unchanged.
C8_WitnessExact ==
    /\ sop = "read"
    /\ M.rows = 1 /\ M.cols = 2
    /\ M.data[1] = -1
    /\ D = M

----------------------------------------------------------------------------
(* Claims on the network *)

\* The shape invariant of the data model: layerSizes is one row of L widths,
\* there are L - 1 biases and L - 1 weights, weights[l] is
\* layerSizes[l + 1] x layerSizes[l] and biases[l] is layerSizes[l + 1] x 1.
WellFormed(n) ==
    /\ n.layerSizes.rows = 1
    /\ Len(n.layerSizes.data) = n.layerSizes.cols
    /\ Len(n.biases) = n.layerSizes.cols - 1
    /\ Len(n.weights) = n.layerSizes.cols - 1
    /\ \A l \in 1..(n.layerSizes.cols - 1) :
          /\ n.weights[l].rows = n.layerSizes.data[l + 1]
          /\ n.weights[l].cols = n.layerSizes.data[l]
          /\ n.biases[l].rows = n.layerSizes.data[l + 1]
          /\ n.biases[l].cols = 1

\* C2 as stated: in every state reached from construction by learn, classify
\* and operator>>, the network holds L - 1 biases and L - 1 weights of the
\* shapes its layerSizes give.
C2_ShapeInvariant ==
    nop # "crashed" => WellFormed(net)

\* The activations and pre-activations of the forward pass, by layer: a_0 is
\* the input, z_l = weights[l].dot(a_(l-1)) + biases[l], a_l = sigmoid(z_l).
RECURSIVE RefA(_, _, _)
RefZ(n, x, l) == Plus(Dot(n.weights[l], RefA(n, x, l - 1)), n.biases[l])
RefA(n, x, l) == IF l = 0 THEN x ELSE ApplySigmoid(RefZ(n, x, l))

\* The error of transition l: at the output (a_L - expected) (.) sigmoid'(z_L),
\* below it (weights[l + 1] transposed . delta_(l+1)) (.) sigmoid'(z_l).
RECURSIVE RefDelta(_, _, _, _)
RefDelta(n, x, e, l) ==
    IF l = Len(n.weights)
    THEN Hadamard(Minus(RefA(n, x, l), e), ApplyInvSigmoid(RefZ(n, x, l)))
    ELSE Hadamard(Dot(Transpose(n.weights[l + 1]), RefDelta(n, x, e, l + 1)),
                  ApplyInvSigmoid(RefZ(n, x, l)))

\* The input and the expected output have the shapes the network asks for.
WellShaped(n, x, e) ==
    /\ x.rows = n.layerSizes.data[1] /\ x.cols = 1
    /\ e.rows = n.layerSizes.data[n.layerSizes.cols] /\ e.cols = 1

LearnStep == nop' \in {"learn", "learn_abort"} /\ nsteps' = nsteps + 1

\* C3: a learn call on a network of L >= 2 layers that holds its L - 1 weights
\* and biases, with input and expected of the right shapes, succeeds and
\* replaces every weights[l] by weights[l] - eta * delta_l.dot(a_(l-1) transposed)
\* and every biases[l] by biases[l] - eta * delta_l, the deltas taken from the
\* weights before the call; layerSizes stays.
C3_LearnIsGradientStep ==
    [][(LearnStep /\ WellFormed(net) /\ WellShaped(net, nin', nexp')) =>
          /\ nop' = "learn"
          /\ net'.layerSizes = net.layerSizes
          /\ Len(net'.weights) = Len(net.weights)
          /\ Len(net'.biases) = Len(net.biases)
          /\ \A l \in 1..Len(net.weights) :
                /\ net'.weights[l] =
                      Minus(net.weights[l],
                            Scale(Dot(RefDelta(net, nin', nexp', l),
                                      Transpose(RefA(net, nin', l - 1))), neta'))
                /\ net'.biases[l] =
                      Minus(net.biases[l], Scale(RefDelta(net, nin', nexp', l), neta'))
      ]_vars

\* A learn call has changed the first weights of a network of three layers:
\* the error has been carried back through the weights of the last transition.
C3_Witness ==
    /\ nop = "learn"
    /\ WellFormed(net)
    /\ net.layerSizes.cols = 3
    /\ \E k \in 1..Len(net.weights[1].data) : net.weights[1].data[k] # 0
    /\ \E k \in 1..Len(net.weights[2].data) : net.weights[2].data[k] # 0

WrongInput(n, x) == x.rows # n.layerSizes.data[1] \/ x.cols # 1

\* C5 as stated: classify with an input that is no layerSizes[0] x 1 column is
\* stopped by the dimension check of dot().
C5_WrongInputStoppedByDot ==
    (nop \in {"classify", "classify_abort"} /\ WellFormed(net) /\ WrongInput(net, nin)) =>
        /\ nop = "classify_abort"
        /\ nres.err = "dot"

\* C5, amended: such a classify call returns no result; it is stopped by the
\* dimension check of dot() when the input has not layerSizes[0] rows, and
\* otherwise (the rows right, the columns not 1) dot() accepts the input and
\* the call is stopped by the same-shape check of the addition of the bias.
C5_WrongInputStopped ==
    (nop \in {"classify", "classify_abort"} /\ WellFormed(net) /\ WrongInput(net, nin)) =>
        /\ nop = "classify_abort"
        /\ ~nres.ok
        /\ nres.err = (IF nin.rows # net.layerSizes.data[1] THEN "dot" ELSE "plus")

\* C5: an input of the right rows and two columns has been stopped by the addition.
C5_Witness ==
    /\ nop = "classify_abort"
    /\ WellFormed(net)
    /\ nin.rows = net.layerSizes.data[1]
    /\ nin.cols = 2
    /\ nres.err = "plus"

\* C5: a column of the wrong number of rows has been stopped by dot().
C5_WitnessRows ==
    /\ nop = "classify_abort"
    /\ WellFormed(net)
    /\ nin.rows # net.layerSizes.data[1]
    /\ nin.cols = 1
    /\ nres.err = "dot"

\* The text cut at every occurrence of the character c, the pieces in order;
\* a piece ends at its c, and what follows the last c is a piece if not empty.
RECURSIVE Pieces(_, _)
PieceEnd(text, c) ==
    CHOOSE i \in 1..(Len(text) + 1) :
        /\ (i = Len(text) + 1 \/ text[i] = c)
        /\ \A j \in 1..(i - 1) : text[j] # c
PiecesFrom(text, c, i) == <<SubSeq(text, 1, i - 1)>> \o Pieces(Drop(text, i), c)
Pieces(text, c) == IF text = <<>> THEN <<>> ELSE PiecesFrom(text, c, PieceEnd(text, c))

\* The text as its lines, each line as its tokens.
LinesOf(text) == [k \in 1..Len(Pieces(text, "\n")) |-> Pieces(Pieces(text, "\n")[k], " ")]

\* The lines of one matrix block: the header "rows cols", one line of cols
\* values for each row in row-major order, and the empty line that the
\* network writes after the block.
BlockLines(m) ==
    << <<FormatSize(m.rows), FormatSize(m.cols)>> >>
    \o [i \in 1..m.rows |-> [j \in 1..m.cols |-> FormatVal(m.data[(i - 1) * m.cols + j])]]
    \o << <<>> >>

RECURSIVE BlocksLines(_, _)
BlocksLines(list, k) ==
    IF k = 0 THEN <<>> ELSE BlocksLines(list, k - 1) \o BlockLines(list[k])

\* C9: the text of a network of L layers that holds its L - 1 biases and
\* weights is the layerSizes block with header "1 L", then the L - 1 bias
\* blocks of the transitions in order, then the L - 1 weight blocks in order,
\* each block a header line, its rows and an empty line.
C9_TextLayout ==
    (nop = "write" /\ WellFormed(net)) =>
        /\ LinesOf(ntext) =
              BlockLines(net.layerSizes)
              \o BlocksLines(net.biases, net.layerSizes.cols - 1)
              \o BlocksLines(net.weights, net.layerSizes.cols - 1)
        /\ LinesOf(ntext)[1] = <<<<"1">>, FormatNat(net.layerSizes.cols)>>
        /\ ntext[Len(ntext)] = "\n"

\* The text of a trained network of three layers has been written.
C9_Witness ==
    /\ nop = "write"
    /\ WellFormed(net)
    /\ net.layerSizes.cols = 3
    /\ nsteps = 2
    /\ \E k \in 1..Len(net.weights[1].data) : net.weights[1].data[k] # 0
    /\ net.weights[2] # Transpose(net.weights[2]) \/ net.weights[1].cols > 1

\* The number of tokens of a text.
RECURSIVE Sum(_, _)
Sum(f, k) == IF k = 0 THEN 0 ELSE Sum(f, k - 1) + Len(f[k])
TokenCount(text) == Sum(LinesOf(text), Len(LinesOf(text)))

\* The number of matrix blocks that can be read from the front of a text in
\* full, header and values.
RECURSIVE CompleteBlocks(_)
CompleteAfter(r) == IF r.crashed \/ r.is.fail THEN 0 ELSE 1 + CompleteBlocks(r.is.buf)
CompleteBlocks(text) == CompleteAfter(ReadMatrix([buf |-> text, fail |-> FALSE], 0, 0))

\* The text that is read has lost values or the header of the text that a
\* network holding its L - 1 biases and weights wrote.
Damaged ==
    /\ WellFormed(net)
    /\ nop = "garbled" \/ (nop = "cut" /\ TokenCount(ntext) < TokenCount(WriteNet(net)))

\* C10 as stated: reading a text that ends before its announced values or
\* whose header is no number ends in a failed stream, and no block whose header
\* or values could not be read becomes a parameter of the network: the
\* network gains at most the blocks that stand in the text in full after
\* layerSizes.
C10_DamagedTextInstallsNothing ==
    [][(Damaged /\ nop' \in {"read_cut", "read_garbled"}) =>
          /\ nfail'
          /\ Len(net'.biases) + Len(net'.weights)
                <= Len(net.biases) + Len(net.weights)
                   + (IF CompleteBlocks(ntext) = 0 THEN 0 ELSE CompleteBlocks(ntext) - 1)
      ]_vars

\* The part of C10 the code keeps: such a read leaves the stream failed.
C10_DamagedTextFails ==
    [][(Damaged /\ nop' \in {"read_cut", "read_garbled"}) => nfail']_vars

\* C11: after construction from the widths w and any number of learn calls
\* that succeeded, classify of a w[0] x 1 input returns a matrix of w[L-1] rows
\* and 1 column, so the two assertions of assess hold for it.
C11_ClassifyShape ==
    (nop \in {"classify", "classify_abort"}
        /\ nin.rows = net.layerSizes.data[1] /\ nin.cols = 1) =>
        /\ net.layerSizes.data \in LayerChoices
        /\ nop = "classify"
        /\ nres.ok
        /\ nres.m.rows = net.layerSizes.data[Len(net.layerSizes.data)]
        /\ nres.m.cols = 1
        /\ Len(nres.m.data) = nres.m.rows
        /\ AssessAsserts(nres.m, net.layerSizes.data[Len(net.layerSizes.data)])

\* C11: a network of three layers, taught twice, has classified a column of
\* layerSizes[0] rows into a column of two rows.
C11_Witness ==
    /\ nop = "classify"
    /\ nsteps = 2
    /\ net.layerSizes.data = <<2, 1, 2>>
    /\ nin.rows = 2 /\ nin.cols = 1
    /\ \E k \in 1..Len(net.weights[1].data) : net.weights[1].data[k] # 0
    /\ height(nres.m) = 2 /\ width(nres.m) = 1

\* The smaller of two numbers.
Min(a, b) == IF a < b THEN a ELSE b

\* C12 as stated: when train(net, path, fileNames, count) has returned, learn
\* has been called once for each of the first min(count, |fileNames|) entries
\* of fileNames, in list order, and for no other entry.
C12_TrainsFirstCount ==
    top = "returned" => tlearned = SubSeq(tnames, 1, Min(tlimit, Len(tnames)))

\* What the loop does: it tests count after the learn call, so it has taken
\* the first min(count + 1, |fileNames|) entries when it returns.
C12_TrainsOneMore ==
    top = "returned" =>
        tlearned = SubSeq(tnames, 1, Min((IF tlimit < 0 THEN 0 ELSE tlimit) + 1, Len(tnames)))

\* Entered through train(net, path, limit, imgListFile), whose list holds at
\* most limit names, the loop takes every entry and so no more than limit.
C12_ViaListTrainsAll ==
    (top = "returned" /\ tvia = "list") =>
        /\ tlearned = tnames
        /\ Len(tlearned) <= (IF tlimit < 0 THEN 0 ELSE tlimit)

\* C13 as stated: reading the text operator<< wrote for a network of L >= 2
\* layers into a network without parameter matrices leaves the stream good
\* and gives a network with the same layerSizes, biases and weights.
C13_NetRoundTrip ==
    [][(nop = "write" /\ WellFormed(net) /\ nop' = "read_fresh") =>
          /\ ~nfail'
          /\ net'.layerSizes = net.layerSizes
          /\ net'.biases = net.biases
          /\ net'.weights = net.weights
      ]_vars

\* What operator>> does with that text whenever it returns: layerSizes is
\* read back, the stream has failed, and the L blocks taken as biases are the
\* L - 1 biases followed by the first weight.
C13_ReadsWeightAsBias ==
    [][(nop = "write" /\ WellFormed(net) /\ nop' = "read_fresh") =>
          /\ nfail'
          /\ net'.layerSizes = net.layerSizes
          /\ Len(net'.biases) = net.layerSizes.cols
          /\ SubSeq(net'.biases, 1, Len(net.biases)) = net.biases
          /\ net'.biases[net.layerSizes.cols] = net.weights[1]
      ]_vars

====
